---- MODULE Spec2Model ----
(***************************************************************************)
(* Model of src/turn_head_to_source.py: the sound-source follower node.    *)
(*                                                                         *)
(* Numbers.  The node works on floating-point angles in degrees.  The only *)
(* arithmetic it does on them is np.median, which averages two stored      *)
(* values, so with whole-degree inputs every value is a multiple of 0.5.   *)
(* The model stores every angle in HALF-DEGREES (90.0 is 180, 89.5 is 179) *)
(* so that the average is exact; astype(int) truncates to a whole degree,  *)
(* which is an even number of half-degrees.                                *)
(*                                                                         *)
(* Threads.  rospy runs the subscriber callback on one thread per          *)
(* publisher connection, so several AudioCallback invocations can be       *)
(* pending at once; they are serialised by self.lock.  An exception that   *)
(* escapes the callback is caught and logged by rospy, and the thread      *)
(* goes on to its next message.                                            *)
(***************************************************************************)
EXTENDS Integers, Sequences, FiniteSets, TLC

\* temporal median filter length (line 22)
FILTER_LENGTH == 20
\* down-sample buffer length (line 24)
BUFFER_LENGTH == 30

\* number of callback threads of the model
NumThreads == 3
\* pushes of one run of the median-filter specification
MaxPushes == 22
\* value changes in the input of the median-filter specification
MaxMedianSwitches == 2
\* longest buffer of the mode specification
MaxModeLen == 5
\* pushes of one run of the vote-buffer specification
MaxVotes == 5

Threads == 1..NumThreads
\* msg.angle values the node may be fed, in half-degrees (-89.0 and 90.0)
Angles == {-178, 180}
\* values pushed in the median-filter specification, in half-degrees
MedianVals == {-180, 178, 180}
\* buffer entries of the mode specification, in half-degrees (-10, 5, 10, 20)
ModeVals == {-20, 10, 20, 40}
\* angles pushed in the vote-buffer specification, in half-degrees
VoteVals == {-180, -178, 178, 180}

VARIABLES
    angle,          \* self.angle: the filter history, most recent first
    buf,            \* self.buf: the down-sample (vote) buffer
    counter,        \* self.counter
    ignore_inputs,  \* self.ignore_inputs
    initializtion,  \* self.initializtion (spelled as in the source)
    lock,           \* self.lock: TRUE when held (threading.Lock has no owner)
    pc,             \* per thread: where its AudioCallback invocation is
    msg,            \* per thread: the message its invocation was called with
    direction,      \* local `direction` of the invocation inside the lock
    goal,           \* the goal last handed to the action client
    result,         \* local `result` of SetPointHead
    during,         \* history: was the thread's message delivered during a commit
    nproc,          \* history: samples pushed through the filter since the last reset
    sends,          \* history: send_goal calls since SetPointHead was entered
    source,         \* the angle the microphone reports, steady during a run
    pushed,         \* history: values pushed into the function under study, oldest first
    called,         \* history: the pure function applied last
    queue,          \* history: the threads blocked in acquire, in order of arrival
    log             \* history: what SetPointHead has done since the commit began

vars == <<angle, buf, counter, ignore_inputs, initializtion, lock, pc, msg,
          direction, goal, result, during, nproc, sends, source,
          pushed, called, queue, log>>

ctrl == <<angle, buf, counter, ignore_inputs, initializtion>>
hist == <<during, nproc, sends, source, pushed, called>>

-----------------------------------------------------------------------------
(* numpy helpers *)

\* np.zeros(n)
RECURSIVE Zeros(_)
Zeros(n) == IF n = 0 THEN <<>> ELSE <<0>> \o Zeros(n - 1)

\* np.roll(a, 1): every element moves one place to the back, the last to the front
Roll(a) == IF Len(a) = 0 THEN a ELSE <<a[Len(a)]>> \o SubSeq(a, 1, Len(a) - 1)

\* a[0] = v
SetFirst(a, v) == <<v>> \o Tail(a)

\* np.hstack((v, a))
HStack(v, a) == <<v>> \o a

RECURSIVE Insert(_, _)
Insert(v, s) ==
    IF s = <<>> THEN <<v>>
    ELSE IF v <= Head(s) THEN <<v>> \o s
    ELSE <<Head(s)>> \o Insert(v, Tail(s))

\* insertion sort; the sorted tail is bound as a value, so that it is computed
\* once where it is used several times
RECURSIVE Sort(_)
Sort(a) ==
    IF a = <<>> THEN <<>>
    ELSE CHOOSE s \in {Insert(Head(a), rest) : rest \in {Sort(Tail(a))}} : TRUE

\* a plausible slip: the upper central value instead of the mean of the two
MedianUpper(a) == Sort(a)[(Len(a) \div 2) + 1]

\* np.median(a) of a non-empty array: the central value of the sorted array,
\* the mean of the two central ones for an even size (exact in half-degrees)
Median(a) ==
    LET s == Sort(a)
        n == Len(a)
    IN  IF n % 2 = 1 THEN s[(n + 1) \div 2]
        ELSE (s[n \div 2] + s[(n \div 2) + 1]) \div 2

RECURSIVE SortedSet(_)
SortedSet(S) ==
    IF S = {} THEN <<>>
    ELSE LET m == CHOOSE x \in S : \A y \in S : x <= y
         IN  <<m>> \o SortedSet(S \ {m})

\* np.unique(buf): the sorted distinct values
Unique(b) == SortedSet({b[i] : i \in 1..Len(b)})

\* np.bincount(indices): how often each unique value occurs
RECURSIVE BinCount(_, _)
BinCount(u, b) ==
    IF u = <<>> THEN <<>>
    ELSE <<Cardinality({i \in 1..Len(b) : b[i] = Head(u)})>> \o BinCount(Tail(u), b)

\* a plausible slip: the last of the maximal entries
ArgMaxLast(c) ==
    CHOOSE j \in 1..Len(c) :
        /\ \A k \in 1..Len(c) : c[k] <= c[j]
        /\ \A k \in (j + 1)..Len(c) : c[k] < c[j]

\* np.argmax(c): the first of the maximal entries
ArgMax(c) ==
    CHOOSE j \in 1..Len(c) :
        /\ \A k \in 1..Len(c) : c[k] <= c[j]
        /\ \A k \in 1..(j - 1) : c[k] < c[j]

\* a plausible slip: rounding to the nearest whole degree, halves upward
AsTypeIntRound(v) == 2 * ((v + 1) \div 2)

\* x.astype(int) of one float: truncation toward zero, in half-degrees
AsTypeInt(v) == IF v >= 0 THEN 2 * (v \div 2) ELSE -(2 * ((-v) \div 2))

\* a.astype(int)
RECURSIVE AsType(_)
AsType(a) == IF a = <<>> THEN <<>> ELSE <<AsTypeInt(Head(a))>> \o AsType(Tail(a))

-----------------------------------------------------------------------------
(* the module-level functions *)

\* a plausible slip: the newest value is overwritten, nothing is shifted
TemporalMedianNoRoll(new_value, history, length) ==
    IF Len(history) < length
    THEN LET h == HStack(new_value, history) IN <<Median(h), h>>
    ELSE LET h == SetFirst(history, new_value) IN <<Median(h), h>>

\* a plausible slip: the history is extended on every call, never rolled
TemporalMedianGrow(new_value, history, length) ==
    LET h == HStack(new_value, history) IN <<Median(h), h>>

\* TemporalMedian(new_value, history, length) returns (m, history)
TemporalMedian(new_value, history, length) ==
    IF Len(history) = 0
    THEN LET h == HStack(new_value, history) IN <<Median(h), h>>
    ELSE IF Len(history) < length
    THEN LET h == HStack(new_value, history) IN <<Median(h), h>>
    ELSE LET h == SetFirst(Roll(history), new_value) IN <<Median(h), h>>

\* DownSample(new_value, buf)
DownSample(new_value, b) == SetFirst(Roll(b), new_value)

\* a plausible slip: the largest of the most frequent values
GetModeLast(b) ==
    LET u == Unique(b) IN u[ArgMaxLast(BinCount(u, b))]

\* GetMode(buf)
GetMode(b) ==
    LET u == Unique(b) IN u[ArgMax(BinCount(u, b))]

-----------------------------------------------------------------------------
(* Follower: construction *)

\* the sequence q without the thread t
Without(q, t) == SelectSeq(q, LAMBDA u : u # t)

NoMsg == [angle |-> 0, is_valid |-> FALSE]

\* the fields __init__ sets (lines 76-82): the history starts as np.zeros(1)
InitFollower ==
    /\ angle = Zeros(1)
    /\ buf = Zeros(BUFFER_LENGTH)
    /\ counter = 0
    /\ ignore_inputs = FALSE
    /\ initializtion = TRUE
    /\ lock = FALSE

InitHistory ==
    /\ during = [t \in Threads |-> FALSE]
    /\ nproc = 0
    /\ sends = 0
    /\ source \in Angles
    /\ pushed = <<>>
    /\ called = "none"
    /\ queue = <<>>
    /\ log = <<>>

Init ==
    /\ InitFollower
    /\ pc = [t \in Threads |-> "idle"]
    /\ msg = [t \in Threads |-> NoMsg]
    /\ direction = 0
    /\ goal = 0
    /\ result = "None"
    /\ InitHistory

\* some invocation is between the entry to SetPointHead and its return
InSetPointHead ==
    \E u \in Threads :
        pc[u] \in {"transform", "send_goal", "wait", "sleep", "clear", "reset"}

-----------------------------------------------------------------------------
(* Follower.AudioCallback *)

\* the subscriber hands a message to a callback thread
Deliver(t, v) ==
    /\ pc[t] = "idle"
    /\ msg' = [msg EXCEPT ![t] = [angle |-> source, is_valid |-> v]]
    /\ during' = [during EXCEPT ![t] = InSetPointHead]
    /\ pc' = [pc EXCEPT ![t] = "acquire"]
    /\ queue' = Append(queue, t)
    /\ UNCHANGED <<ctrl, lock, direction, goal, result, nproc, sends, source, pushed,
                   called, log>>

\* a plausible slip: the callback goes on without taking the lock
AcquireNoWait(t) ==
    /\ pc[t] = "acquire"
    /\ lock' = TRUE
    /\ pc' = [pc EXCEPT ![t] = "body"]
    /\ queue' = Without(queue, t)
    /\ UNCHANGED <<ctrl, msg, direction, goal, result, hist, log>>

\* self.lock.acquire() (line 88): blocks while the lock is held
Acquire(t) ==
    /\ pc[t] = "acquire"
    /\ lock = FALSE
    /\ lock' = TRUE
    /\ pc' = [pc EXCEPT ![t] = "body"]
    /\ queue' = Without(queue, t)
    /\ UNCHANGED <<ctrl, msg, direction, goal, result, hist, log>>

\* a plausible slip: `if` ... `if` instead of `if` ... `elif`, so that the first
\* message is filtered and counted as well
InitializeAndPush(t) ==
    /\ pc[t] = "body"
    /\ initializtion
    /\ initializtion' = FALSE
    /\ IF msg[t].is_valid /\ ~ignore_inputs
       THEN LET tm == TemporalMedian(msg[t].angle, angle, FILTER_LENGTH)
            IN  /\ angle' = tm[2]
                /\ buf' = DownSample(tm[1], buf)
                /\ direction' = tm[1]
                /\ counter' = counter + 1
                /\ nproc' = nproc + 1
       ELSE UNCHANGED <<angle, buf, direction, counter, nproc>>
    /\ pc' = [pc EXCEPT ![t] = "release"]
    /\ UNCHANGED <<ignore_inputs, lock, msg, goal, result, during, sends, source,
                   pushed, called, queue, log>>

\* lines 89-90: the first invocation only clears the flag
Initialize(t) ==
    /\ pc[t] = "body"
    /\ initializtion
    /\ initializtion' = FALSE
    /\ pc' = [pc EXCEPT ![t] = "release"]
    /\ UNCHANGED <<angle, buf, counter, ignore_inputs, lock, msg, direction, goal,
                   result, hist, queue, log>>

\* a plausible slip: the message is not filtered but still counted
DiscardCounts(t) ==
    /\ pc[t] = "body"
    /\ ~initializtion
    /\ ~(msg[t].is_valid /\ ~ignore_inputs)
    /\ counter' = IF counter < BUFFER_LENGTH THEN counter + 1 ELSE counter
    /\ pc' = [pc EXCEPT ![t] = "release"]
    /\ UNCHANGED <<angle, buf, ignore_inputs, initializtion, lock, msg, direction,
                   goal, result, hist, queue, log>>

\* line 91, condition false: nothing is done with the message
Discard(t) ==
    /\ pc[t] = "body"
    /\ ~initializtion
    /\ ~(msg[t].is_valid /\ ~ignore_inputs)
    /\ pc' = [pc EXCEPT ![t] = "release"]
    /\ UNCHANGED <<ctrl, lock, msg, direction, goal, result, hist, queue, log>>

\* lines 105-109 and 145-147: filter, down-sample, count
Accumulate(t) ==
    /\ pc[t] = "body"
    /\ ~initializtion
    /\ msg[t].is_valid /\ ~ignore_inputs
    /\ LET tm == TemporalMedian(msg[t].angle, angle, FILTER_LENGTH)
       IN  /\ angle' = tm[2]
           /\ buf' = DownSample(tm[1], buf)
           /\ direction' = tm[1]
    /\ counter # BUFFER_LENGTH
    /\ counter' = counter + 1
    /\ nproc' = nproc + 1
    /\ pc' = [pc EXCEPT ![t] = "release"]
    /\ UNCHANGED <<ignore_inputs, initializtion, lock, msg, goal, result, during,
                   sends, source, pushed, called, queue, log>>

\* a plausible slip: the vote is taken at FILTER_LENGTH, before the buffer is full
CommitEarly(t) ==
    /\ pc[t] = "body"
    /\ ~initializtion
    /\ msg[t].is_valid /\ ~ignore_inputs
    /\ counter = FILTER_LENGTH
    /\ LET tm == TemporalMedian(msg[t].angle, angle, FILTER_LENGTH)
           b  == DownSample(tm[1], buf)
       IN  \E bi \in {AsType(b)} :
               /\ angle' = tm[2]
               /\ buf' = bi
               /\ direction' = GetMode(bi)
    /\ nproc' = nproc + 1
    /\ sends' = 0
    /\ pc' = [pc EXCEPT ![t] = "transform"]
    /\ log' = <<>>
    /\ UNCHANGED <<counter, ignore_inputs, initializtion, lock, msg, goal, result,
                   during, source, pushed, called, queue>>

\* lines 105-144: filter, down-sample, and with the counter at BUFFER_LENGTH
\* take the mode of the truncated buffer and call SetPointHead; line 112
\* assigns a local `counter`, self.counter is left as it is. bi is the one
\* array that line 113 stores and line 114 reads
Commit(t) ==
    /\ pc[t] = "body"
    /\ ~initializtion
    /\ msg[t].is_valid /\ ~ignore_inputs
    /\ counter = BUFFER_LENGTH
    /\ LET tm == TemporalMedian(msg[t].angle, angle, FILTER_LENGTH)
           b  == DownSample(tm[1], buf)
       IN  \E bi \in {AsType(b)} :
               /\ angle' = tm[2]
               /\ buf' = bi
               /\ direction' = GetMode(bi)
    /\ nproc' = nproc + 1
    /\ sends' = 0
    /\ pc' = [pc EXCEPT ![t] = "transform"]
    /\ log' = <<>>
    /\ UNCHANGED <<counter, ignore_inputs, initializtion, lock, msg, goal, result,
                   during, source, pushed, called, queue>>

\* self.lock.release() (line 148) and the return of the callback
Release(t) ==
    /\ pc[t] = "release"
    /\ lock' = FALSE
    /\ pc' = [pc EXCEPT ![t] = "idle"]
    /\ msg' = [msg EXCEPT ![t] = NoMsg]
    /\ during' = [during EXCEPT ![t] = FALSE]
    /\ direction' = 0
    /\ result' = "None"
    /\ UNCHANGED <<ctrl, goal, nproc, sends, source, pushed, called, queue, log>>

-----------------------------------------------------------------------------
(* Follower.SetPointHead *)

\* an exception leaves SetPointHead and AudioCallback: neither has a handler,
\* so line 148 is not reached; rospy logs it and the thread takes new messages
Raise(t) ==
    /\ pc' = [pc EXCEPT ![t] = "idle"]
    /\ msg' = [msg EXCEPT ![t] = NoMsg]
    /\ during' = [during EXCEPT ![t] = FALSE]
    /\ direction' = 0
    /\ result' = "None"

\* lines 151-156: the goal is built from the transformed point
TransformPoint(t) ==
    /\ pc[t] = "transform"
    /\ pc' = [pc EXCEPT ![t] = "send_goal"]
    /\ UNCHANGED <<ctrl, lock, msg, direction, goal, result, hist, queue, log>>

\* line 152: tf.transformPoint raises (no transform available)
TransformRaises(t) ==
    /\ pc[t] = "transform"
    /\ Raise(t)
    /\ UNCHANGED <<ctrl, lock, goal, nproc, sends, source, pushed, called, queue, log>>

\* lines 159-160: the flag is set and the goal is sent
SendGoal(t) ==
    /\ pc[t] = "send_goal"
    /\ ignore_inputs' = TRUE
    /\ goal' = direction
    /\ sends' = sends + 1
    /\ pc' = [pc EXCEPT ![t] = "wait"]
    /\ log' = log \o <<"flag set", "goal sent">>
    /\ UNCHANGED <<angle, buf, counter, initializtion, lock, msg, direction, result,
                   during, nproc, source, pushed, called, queue>>

\* a plausible slip: the lock is released in a handler, the flag is left set
SendGoalRaisesReleases(t) ==
    /\ pc[t] = "send_goal"
    /\ ignore_inputs' = TRUE
    /\ lock' = FALSE
    /\ Raise(t)
    /\ log' = Append(log, "flag set")
    /\ UNCHANGED <<angle, buf, counter, initializtion, goal, nproc, sends,
                   source, pushed, called, queue>>

\* lines 159-160: the flag is set and client.send_goal raises
SendGoalRaises(t) ==
    /\ pc[t] = "send_goal"
    /\ ignore_inputs' = TRUE
    /\ Raise(t)
    /\ log' = Append(log, "flag set")
    /\ UNCHANGED <<angle, buf, counter, initializtion, lock, goal, nproc, sends,
                   source, pushed, called, queue>>

\* a plausible slip: a move that did not succeed is sent again
WaitForResultRetry(t) ==
    /\ pc[t] = "wait"
    /\ \E r \in {"True", "False"} :
        /\ result' = r
        /\ pc' = [pc EXCEPT ![t] = IF r = "True" THEN "sleep" ELSE "send_goal"]
    /\ log' = Append(log, "result awaited")
    /\ UNCHANGED <<ctrl, lock, msg, direction, goal, hist, queue>>

\* lines 164-166: the blocking wait returns a result, which is only logged
WaitForResult(t) ==
    /\ pc[t] = "wait"
    /\ result' \in {"True", "False"}
    /\ pc' = [pc EXCEPT ![t] = "sleep"]
    /\ log' = Append(log, "result awaited")
    /\ UNCHANGED <<ctrl, lock, msg, direction, goal, hist, queue>>

\* line 167: rospy.sleep(2)
Sleep(t) ==
    /\ pc[t] = "sleep"
    /\ pc' = [pc EXCEPT ![t] = "clear"]
    /\ log' = Append(log, "paused")
    /\ UNCHANGED <<ctrl, lock, msg, direction, goal, result, hist, queue>>

\* line 168
ClearIgnore(t) ==
    /\ pc[t] = "clear"
    /\ ignore_inputs' = FALSE
    /\ pc' = [pc EXCEPT ![t] = "reset"]
    /\ log' = Append(log, "flag cleared")
    /\ UNCHANGED <<angle, buf, counter, initializtion, lock, msg, direction, goal,
                   result, hist, queue>>

\* a plausible slip: the counter is assigned to a local, as on line 112
ResetStateLocalCounter(t) ==
    /\ pc[t] = "reset"
    /\ angle' = <<>>
    /\ buf' = Zeros(BUFFER_LENGTH)
    /\ nproc' = 0
    /\ pc' = [pc EXCEPT ![t] = "release"]
    /\ log' = Append(log, "state reset")
    /\ UNCHANGED <<counter, ignore_inputs, initializtion, lock, msg, direction, goal,
                   result, during, sends, source, pushed, called, queue>>

\* lines 171-173: history, buffer and counter are re-initialised
ResetState(t) ==
    /\ pc[t] = "reset"
    /\ angle' = <<>>
    /\ buf' = Zeros(BUFFER_LENGTH)
    /\ counter' = 0
    /\ nproc' = 0
    /\ pc' = [pc EXCEPT ![t] = "release"]
    /\ log' = Append(log, "state reset")
    /\ UNCHANGED <<ignore_inputs, initializtion, lock, msg, direction, goal, result,
                   during, sends, source, pushed, called, queue>>

SetPointHead(t) ==
    \/ TransformPoint(t)
    \/ TransformRaises(t)
    \/ SendGoal(t)
    \/ SendGoalRaises(t)
    \/ WaitForResult(t)
    \/ Sleep(t)
    \/ ClearIgnore(t)
    \/ ResetState(t)

AudioCallback(t) ==
    \/ Acquire(t)
    \/ Initialize(t)
    \/ Discard(t)
    \/ Accumulate(t)
    \/ Commit(t)
    \/ SetPointHead(t)
    \/ Release(t)

Next ==
    \E t \in Threads :
        \/ \E v \in BOOLEAN : Deliver(t, v)
        \/ AudioCallback(t)

Spec == Init /\ [][Next]_vars

\* the steps a callback thread takes by itself once started: a thread that can
\* go on does go on. The return of wait_for_result (line 164, timeout
\* rospy.Duration(0.0), i.e. none) depends on the action server, and the
\* arrival of messages and the exceptions depend on the environment: none of
\* these is assumed to happen.
Progress(t) ==
    \/ Acquire(t)
    \/ Initialize(t)
    \/ Discard(t)
    \/ Accumulate(t)
    \/ Commit(t)
    \/ TransformPoint(t)
    \/ SendGoal(t)
    \/ Sleep(t)
    \/ ClearIgnore(t)
    \/ ResetState(t)
    \/ Release(t)

SpecLive == Init /\ [][Next]_vars /\ \A t \in Threads : WF_vars(Progress(t))

-----------------------------------------------------------------------------
(* TemporalMedian on its own: pushes into a history that starts empty, as     *)
(* SetPointHead leaves it (line 171)                                          *)

\* how often consecutive values of s differ
Changes(s) == Cardinality({i \in 1..(Len(s) - 1) : s[i] # s[i + 1]})

InitMedian ==
    /\ angle = <<>>
    /\ buf = Zeros(BUFFER_LENGTH)
    /\ counter = 0
    /\ ignore_inputs = FALSE
    /\ initializtion = FALSE
    /\ lock = FALSE
    /\ pc = [t \in Threads |-> "idle"]
    /\ msg = [t \in Threads |-> NoMsg]
    /\ direction = 0
    /\ goal = 0
    /\ result = "None"
    /\ InitHistory

\* (direction, self.angle) = TemporalMedian(v, self.angle, FILTER_LENGTH)
MedianPush(v) ==
    /\ Len(pushed) < MaxPushes
    /\ Changes(Append(pushed, v)) <= MaxMedianSwitches
    /\ LET tm == TemporalMedian(v, angle, FILTER_LENGTH)
       IN  /\ direction' = tm[1]
           /\ angle' = tm[2]
    /\ pushed' = Append(pushed, v)
    /\ called' = "TemporalMedian"
    /\ UNCHANGED <<buf, counter, ignore_inputs, initializtion, lock, pc, msg, goal,
                   result, during, nproc, sends, source, queue, log>>

NextMedian == \E v \in MedianVals : MedianPush(v)

SpecMedian == InitMedian /\ [][NextMedian]_vars

-----------------------------------------------------------------------------
(* GetMode on its own: any buffer content, in any order *)

InitMode ==
    /\ angle = <<>>
    /\ buf \in UNION {[1..n -> ModeVals] : n \in 1..MaxModeLen}
    /\ counter = 0
    /\ ignore_inputs = FALSE
    /\ initializtion = FALSE
    /\ lock = FALSE
    /\ pc = [t \in Threads |-> "idle"]
    /\ msg = [t \in Threads |-> NoMsg]
    /\ direction = 0
    /\ goal = 0
    /\ result = "None"
    /\ InitHistory

\* direction = GetMode(self.buf)
ModeCall ==
    /\ called = "none"
    /\ direction' = GetMode(buf)
    /\ called' = "GetMode"
    /\ UNCHANGED <<angle, buf, counter, ignore_inputs, initializtion, lock, pc, msg,
                   goal, result, during, nproc, sends, source, pushed, queue, log>>

\* the same content in another order: two neighbours change places
ModeReorder(i) ==
    /\ called \in {"GetMode", "reordered"}
    /\ i < Len(buf)
    /\ buf[i] # buf[i + 1]
    /\ buf' = SubSeq(buf, 1, i - 1) \o <<buf[i + 1], buf[i]>> \o SubSeq(buf, i + 2, Len(buf))
    /\ called' = "reordered"
    /\ UNCHANGED <<angle, counter, ignore_inputs, initializtion, lock, pc, msg,
                   direction, goal, result, during, nproc, sends, source,
                   pushed, queue, log>>

NextMode ==
    \/ ModeCall
    \/ \E i \in 1..MaxModeLen : ModeReorder(i)

SpecMode == InitMode /\ [][NextMode]_vars

-----------------------------------------------------------------------------
(* The vote buffer on its own: filtered values are pushed as floats (lines    *)
(* 105-109) and the buffer is converted when the vote is taken (113-114)      *)

\* lines 105-109; `pushed` records the filtered values handed to DownSample
VotePush(v) ==
    /\ called # "astype"
    /\ Len(pushed) < MaxVotes
    /\ LET tm == TemporalMedian(v, angle, FILTER_LENGTH)
       IN  /\ direction' = tm[1]
           /\ angle' = tm[2]
           /\ buf' = DownSample(tm[1], buf)
           /\ pushed' = Append(pushed, tm[1])
    /\ called' = "DownSample"
    /\ UNCHANGED <<counter, ignore_inputs, initializtion, lock, pc, msg, goal,
                   result, during, nproc, sends, source, queue, log>>

\* lines 113-114: self.buf = self.buf.astype(int); direction = GetMode(self.buf)
VoteQuantize ==
    /\ called = "DownSample"
    /\ buf' = AsType(buf)
    /\ direction' = GetMode(AsType(buf))
    /\ called' = "astype"
    /\ UNCHANGED <<angle, counter, ignore_inputs, initializtion, lock, pc, msg, goal,
                   result, during, nproc, sends, source, pushed, queue, log>>

NextVote ==
    \/ \E v \in VoteVals : VotePush(v)
    \/ VoteQuantize

SpecVote == InitMedian /\ [][NextVote]_vars

-----------------------------------------------------------------------------
(* Properties *)

Range(s) == {s[i] : i \in 1..Len(s)}

Count(s, x) == Cardinality({i \in 1..Len(s) : s[i] = x})

RECURSIVE Reverse(_)
Reverse(s) == IF s = <<>> THEN <<>> ELSE Append(Reverse(Tail(s)), Head(s))

\* the value of rank k (1 is the smallest) among the entries of s
Ranked(s, k) ==
    CHOOSE v \in Range(s) :
        /\ Cardinality({i \in 1..Len(s) : s[i] < v}) < k
        /\ k <= Cardinality({i \in 1..Len(s) : s[i] <= v})

\* m is the median of the entries of s by the even/odd definition
IsMedian(m, s) ==
    LET n == Len(s)
    IN  IF n % 2 = 1 THEN m = Ranked(s, (n + 1) \div 2)
        ELSE 2 * m = Ranked(s, n \div 2) + Ranked(s, (n \div 2) + 1)

\* the history, buffer and counter as lines 171-173 leave them
IsReset ==
    /\ angle = <<>>
    /\ buf = Zeros(BUFFER_LENGTH)
    /\ counter = 0

\* C1: counting the samples pushed through the filter since the last reset (or
\* since start), the commit is entered on exactly the 30th of them.
C1_CommitOnThirtieth ==
    \A t \in Threads : pc[t] = "transform" => nproc = BUFFER_LENGTH

\* C2: a callback whose sample was delivered while a commit was in progress
\* is discarded when it gets to run: its pass through the body of the callback
\* changes neither the filter history, the vote buffer nor the counter.
C2_DeliveredDuringCommitDiscarded ==
    [][\A t \in Threads :
        (during[t] /\ pc[t] = "body" /\ pc'[t] # "body") =>
            UNCHANGED <<angle, buf, counter>>]_vars

C4_MedianOfPushed ==
    (called = "TemporalMedian" /\ Len(pushed) <= FILTER_LENGTH) =>
        /\ IsMedian(direction, pushed)
        /\ angle = Reverse(pushed)

\* an even number of pushes whose two central values differ
C4_Witness ==
    /\ called = "TemporalMedian"
    /\ Len(pushed) = FILTER_LENGTH
    /\ Ranked(pushed, 10) = -180
    /\ Ranked(pushed, 11) = 178
    /\ direction = -1
    /\ pushed[1] = 180

\* C5: the first sample pushed after construction, like the first one after a
\* reset, meets an empty history: the filtered value is the raw angle and the
\* history afterwards holds that one value.
C5_FirstFilteredIsRaw ==
    \A t \in Threads :
        (pc[t] = "release" /\ msg[t].is_valid /\ nproc = 1) =>
            /\ direction = msg[t].angle
            /\ angle = <<msg[t].angle>>

\* C6: after more than 20 pushes the history is exactly the last 20 values
\* pushed, newest first, and the value returned is their median.
C6_RingEviction ==
    (called = "TemporalMedian" /\ Len(pushed) > FILTER_LENGTH) =>
        LET n == Len(pushed)
            w == SubSeq(pushed, n - FILTER_LENGTH + 1, n)
        IN  /\ angle = Reverse(w)
            /\ IsMedian(direction, w)

\* two values have been evicted, and they differ from the ones that came in
C6_Witness ==
    /\ called = "TemporalMedian"
    /\ Len(pushed) = FILTER_LENGTH + 2
    /\ pushed[1] = -180
    /\ pushed[2] = 178
    /\ angle[1] = 180
    /\ angle[FILTER_LENGTH] = 178
    /\ -180 \notin Range(angle)

\* C7: GetMode returns a value that occurs most often in the buffer, the
\* smallest one when several tie, and returns the same value for every order
\* of the same content.
C7_ModeDeterminism ==
    called \in {"GetMode", "reordered"} =>
        LET m == GetMode(buf)
        IN  /\ m = direction
            /\ m \in Range(buf)
            /\ \A x \in Range(buf) :
                /\ Count(buf, x) <= Count(buf, m)
                /\ Count(buf, x) = Count(buf, m) => m <= x

\* the content [10, 10, 20, 20, 5] degrees in an order that starts with a 20
C7_Witness ==
    /\ called = "reordered"
    /\ Len(buf) = 5
    /\ Count(buf, 20) = 2
    /\ Count(buf, 40) = 2
    /\ Count(buf, 10) = 1
    /\ buf[1] = 40
    /\ direction = 20

\* C8: the lock is released on every exit path of AudioCallback: when no
\* invocation is inside the callback, the lock is free.
C8_LockFreeAfterCallback ==
    (\A t \in Threads : pc[t] \in {"idle", "acquire"}) => lock = FALSE

\* C9: whatever result the wait returns, exactly one goal has been sent, and
\* the invocation goes on to pause, clear the flag and reset: when
\* SetPointHead has returned the flag is false and history, buffer and counter
\* are reset, for either result.
C9_ResultNotBranchedOn ==
    \A t \in Threads :
        /\ (pc[t] \in {"sleep", "clear", "reset", "release"} /\ result # "None") =>
               sends = 1
        /\ (pc[t] = "release" /\ result # "None") => (IsReset /\ ~ignore_inputs)

\* SetPointHead has returned after a wait that reported no success
C9_Witness ==
    \E t \in Threads :
        /\ pc[t] = "release"
        /\ result = "False"
        /\ IsReset
        /\ ~ignore_inputs

\* C10: whenever a commit is left, also by an error, the history and buffer
\* are reset, the counter is 0 and ignore_inputs is false.
C10_ResetOnEveryExit ==
    [][(InSetPointHead /\ ~InSetPointHead') => (IsReset' /\ ~ignore_inputs')]_vars

\* C11: the first sample handled after construction, valid or not, only
\* clears the initialization flag: history, buffer, counter and ignore flag
\* stay as constructed and the invocation goes straight to the release; the
\* flag is false after that one sample and never becomes true again.
C11_FirstSampleOnlyClearsFlag ==
    /\ [](initializtion =>
            (angle = Zeros(1) /\ buf = Zeros(BUFFER_LENGTH) /\ counter = 0 /\ nproc = 0))
    /\ [][/\ ~initializtion => ~initializtion'
          /\ \A t \in Threads :
                (initializtion /\ pc[t] = "body" /\ pc'[t] # "body") =>
                    /\ ~initializtion'
                    /\ pc'[t] = "release"
                    /\ UNCHANGED <<angle, buf, counter, ignore_inputs, nproc, sends>>]_vars

\* a valid first sample has been handled: the flag is cleared, nothing else
C11_Witness ==
    \E t \in Threads :
        /\ pc[t] = "release"
        /\ msg[t].is_valid
        /\ ~initializtion
        /\ angle = Zeros(1)
        /\ buf = Zeros(BUFFER_LENGTH)
        /\ counter = 0

\* C12: handling a sample with is_valid false once the initialization flag is
\* cleared changes neither history, buffer, counter nor the two flags, sends
\* no goal and does not count as a pushed sample.
C12_InvalidSampleNoMutation ==
    [][\A t \in Threads :
        (~initializtion /\ pc[t] = "body" /\ ~msg[t].is_valid /\ pc'[t] # "body") =>
            /\ pc'[t] = "release"
            /\ UNCHANGED <<angle, buf, counter, ignore_inputs, initializtion, goal,
                           sends, nproc>>]_vars

\* an invalid sample has been handled with the counter at BUFFER_LENGTH
C12_Witness ==
    \E t \in Threads :
        /\ pc[t] = "release"
        /\ msg[t] # NoMsg
        /\ ~msg[t].is_valid
        /\ result = "None"
        /\ counter = BUFFER_LENGTH
        /\ nproc = BUFFER_LENGTH
        /\ Len(angle) = FILTER_LENGTH

\* the whole degree nearest to v, a half going upward (89.5 gives 90)
Nearest(v) ==
    CHOOSE e \in (v - 2)..(v + 2) : e % 2 = 0 /\ e - 1 <= v /\ v < e + 1

\* the whole degree next to v on the side of zero (89.5 gives 89, -89.5 gives -89)
TowardZero(v) ==
    CHOOSE e \in (v - 2)..(v + 2) :
        /\ e % 2 = 0
        /\ v >= 0 => (e <= v /\ v < e + 2)
        /\ v < 0 => (v <= e /\ e - 2 < v)

\* C13 as stated: the integer that takes part in the vote is the filtered
\* value rounded to the nearest integer.
C13_VoteIsRounded ==
    called = "astype" =>
        \A i \in 1..Len(pushed) : buf[i] = Nearest(pushed[Len(pushed) + 1 - i])

\* C13 as amended: the integer that takes part in the vote is the filtered
\* value truncated toward zero, for non-negative and negative values.
C13_VoteIsTruncated ==
    called = "astype" =>
        \A i \in 1..Len(pushed) : buf[i] = TowardZero(pushed[Len(pushed) + 1 - i])

\* a vote taken over filtered values 89.5 and -0.5 among others
C13_Witness ==
    /\ called = "astype"
    /\ 179 \in Range(pushed)
    /\ -1 \in Range(pushed)
    /\ 178 \in Range(buf)
    /\ 179 \notin Range(buf)

\* the invocation of t is between lock.acquire() and lock.release()
InLock(t) ==
    pc[t] \in {"body", "transform", "send_goal", "wait", "sleep", "clear", "reset",
               "release"}

\* C14: callbacks pending on the lock enter the critical section in the order
\* in which their samples arrived; stated for the callbacks whose samples all
\* arrived during a commit, which were blocked on the held lock together.
C14_ArrivalOrder ==
    [][\A t \in Threads :
        (/\ pc[t] = "acquire"
         /\ pc'[t] = "body"
         /\ \A u \in Range(queue) : during[u]) => t = Head(queue)]_vars

\* C15: at most one invocation is between acquire and release, the lock is
\* held while one is, and every step that changes the history, the buffer, the
\* counter or either flag is a step of that invocation.
C15_MutualExclusion ==
    /\ [](/\ Cardinality({t \in Threads : InLock(t)}) <= 1
          /\ (\E t \in Threads : InLock(t)) => lock)
    /\ [][ctrl' # ctrl =>
            \E t \in Threads : InLock(t) /\ lock /\ pc'[t] # pc[t]]_vars

\* one invocation waits for the actuator while the others are blocked in acquire
C15_Witness ==
    \E t \in Threads :
        /\ pc[t] = "wait"
        /\ ignore_inputs
        /\ \A u \in Threads \ {t} : pc[u] = "acquire" /\ msg[u].is_valid

\* C16: whenever GetMode has been invoked, at least BUFFER_LENGTH filtered
\* values have been pushed into the buffer since the last reset (or since
\* construction), so no slot still holds a zero written by np.zeros.
C16_ModePrecondition ==
    \A t \in Threads :
        pc[t] = "transform" =>
            /\ nproc >= BUFFER_LENGTH
            /\ Len(buf) = BUFFER_LENGTH
            /\ 0 \notin Range(buf)
            /\ direction # 0

\* the vote of a second cycle, over a buffer that was reset to zeros before it
C16_Witness ==
    \E t \in Threads :
        /\ pc[t] = "transform"
        /\ sends = 0
        /\ goal # 0
        /\ direction = source
        /\ \A i \in 1..BUFFER_LENGTH : buf[i] = source

\* the events of a commit in the order of lines 159-173
CommitOrder ==
    <<"flag set", "goal sent", "result awaited", "paused", "flag cleared", "state reset">>

\* C17: within every commit the events occur in the order flag set, goal sent,
\* result awaited, paused, flag cleared, state reset, each exactly once, and
\* only then the lock is released: the events so far are always a prefix of
\* that order, the lock is held during SetPointHead, and an invocation leaves
\* SetPointHead only with all six events done.
C17_CommitStepOrder ==
    /\ [](/\ Len(log) <= Len(CommitOrder)
          /\ log = SubSeq(CommitOrder, 1, Len(log))
          /\ InSetPointHead => lock)
    /\ [][\A t \in Threads :
            (/\ pc[t] \in {"transform", "send_goal", "wait", "sleep", "clear", "reset"}
             /\ pc'[t] \in {"release", "idle"}) => (log' = CommitOrder /\ pc'[t] = "release")]_vars

\* C18: every commit that has sent its goal completes, with the lock released,
\* even when the actuator never reports completion.
C18_CommitCompletes ==
    (\E t \in Threads : pc[t] = "wait") ~> (~InSetPointHead /\ ~lock)

\* C19: the filter history never holds more than FILTER_LENGTH values, the vote
\* buffer always has exactly BUFFER_LENGTH slots, the counter stays within
\* 0..BUFFER_LENGTH, and the counter goes back to 0 only in the reset that
\* ends a commit.
C19_Bounds ==
    /\ [](/\ Len(angle) <= FILTER_LENGTH
          /\ Len(buf) = BUFFER_LENGTH
          /\ counter \in 0..BUFFER_LENGTH)
    /\ [][(counter # 0 /\ counter' = 0) =>
            \E t \in Threads : pc[t] = "reset" /\ pc'[t] = "release"]_vars

\* the history is full and the counter has reached its largest value
C19_Witness ==
    /\ Len(angle) = FILTER_LENGTH
    /\ counter = BUFFER_LENGTH
    /\ nproc > FILTER_LENGTH

\* C20: the ignoring flag is true only while the lock is held, so a callback
\* that evaluates the condition of line 91 finds the flag false, and a message
\* is discarded only for being invalid; also after a commit that raised with
\* the flag set.
C20_FlagNeverObserved ==
    /\ ignore_inputs => lock
    /\ \A t \in Threads : pc[t] = "body" => ~ignore_inputs
    /\ \A t \in Threads :
        (pc[t] = "body" /\ ~initializtion /\ ENABLED Discard(t)) => ~msg[t].is_valid

\* a commit has raised with the flag set, and a valid message is waiting
C20_Witness ==
    /\ ignore_inputs
    /\ ~InSetPointHead
    /\ lock
    /\ \E t \in Threads : pc[t] = "acquire" /\ msg[t].is_valid

====
